---- MODULE Spec2Model ----
(***************************************************************************)
(* capybara.py, capybara/node/matchers.py: the assertions of MatchersMixin *)
(* (assert_selector, assert_no_selector, assert_text, assert_no_text,      *)
(* assert_style, assert_all_of_selectors, assert_none_of_selectors,        *)
(* assert_matches_selector, assert_not_match_selector) and their boolean   *)
(* wrappers, run under the retry loop `synchronize`.                       *)
(*                                                                         *)
(* Time is discrete: one unit is one inter-attempt pause of the loop.  An  *)
(* evaluation (one call into the external query engine) and, when it       *)
(* fails, the loop's deadline test that immediately follows the raised     *)
(* exception happen at one instant; the clock advances between             *)
(* evaluations.  The query engine is an input: each evaluation draws its   *)
(* response (an occurrence count, a style verdict, a result set, or an     *)
(* error) from a bounded set.                                              *)
(***************************************************************************)
EXTENDS Integers, Sequences, FiniteSets

\* ---------------------------------------------------------------- bounds
MaxCount == 2
MaxWait == 2
MaxLocs == 2

MaxTime == MaxWait + 1

\* ------------------------------------------------------------- constants
None == <<>>
Some(v) == <<v>>
Unhashable == "[unhashable]"
SelectorKinds == {"css", "xpath"}
LocatorNames == <<"#a", "#b", "#c", "#d">>
Nodes == {"self", "twin"}

SingleCountOps == {"assert_selector", "assert_no_selector", "assert_text", "assert_no_text"}
MatchOps == {"assert_matches_selector", "assert_not_match_selector"}
GroupOps == {"assert_all_of_selectors", "assert_none_of_selectors"}
SingleOps == SingleCountOps \cup MatchOps \cup {"assert_style"}
Ops == SingleOps \cup GroupOps

\* ------------------------------------------------------- results, errors
\* What a body, a loop or a call produces: the value True or a raised error.
True == [kind |-> "True", msg |-> "", count |-> -1]
False == [kind |-> "False", msg |-> "", count |-> -1]
NoResult == [kind |-> "none", msg |-> "", count |-> -1]

ExpectationNotMet(msg, count) == [kind |-> "ExpectationNotMet", msg |-> msg, count |-> count]
ConfigurationError == [kind |-> "ConfigurationError", msg |-> "invalid options", count |-> -1]
EvaluatorRaised(err) == [kind |-> err, msg |-> "raised by the evaluator", count |-> -1]

\* ------------------------------------------------------ evaluator inputs
\* One response of the external query engine to one evaluation.
Response(err, count, resolves, result) ==
    [err |-> err, count |-> count, resolves |-> resolves, result |-> result]
NoResponse == Response("unset", 0, FALSE, {})

CountResponses == {Response("none", n, FALSE, {}) : n \in 0..MaxCount}
StyleResponses == {Response("none", 0, b, {}) : b \in BOOLEAN}
MatchResponses == {Response("none", Cardinality(s), FALSE, s) : s \in SUBSET Nodes}
ErrorResponses == {Response(e, 0, FALSE, {}) : e \in {"TransientStateError", "EvaluatorFailure"}}

ResponsesFor(op) ==
    (IF op = "assert_style" THEN StyleResponses
     ELSE IF op \in MatchOps THEN MatchResponses
     ELSE CountResponses) \cup ErrorResponses

\* ------------------------------------------------------------ option bags
\* An option is None or Some(value); `between` holds Some(<<lo, hi>>).
NoOptions == [count |-> None, minimum |-> None, maximum |-> None, between |-> None]
Quantities == (-1)..MaxCount
Ranges == {<<lo, hi>> : lo \in 0..MaxCount, hi \in 0..MaxCount}

OptionBags ==
    {NoOptions}
    \cup {[NoOptions EXCEPT !.count = Some(n)] : n \in Quantities}
    \cup {[NoOptions EXCEPT !.minimum = Some(n)] : n \in Quantities}
    \cup {[NoOptions EXCEPT !.maximum = Some(n)] : n \in Quantities}
    \cup {[NoOptions EXCEPT !.between = Some(r)] : r \in Ranges}
    \cup {[NoOptions EXCEPT !.count = Some(n), !.minimum = Some(n)] : n \in 0..MaxCount}

WaitOptions == {None} \cup {Some(w) : w \in 0..MaxWait}

Given(options) == {k \in {"count", "minimum", "maximum", "between"} : options[k] # None}

\* CountConstraint.build: rejects more than one quantity option, an inverted
\* range and a negative bound.
ValidOptions(options) ==
    /\ Cardinality(Given(options)) <= 1
    /\ options.count # None => options.count[1] >= 0
    /\ options.minimum # None => options.minimum[1] >= 0
    /\ options.maximum # None => options.maximum[1] >= 0
    /\ options.between # None =>
          /\ options.between[1][1] >= 0
          /\ options.between[1][1] <= options.between[1][2]

\* CountConstraint.check, over the option bag the query was built from.
matches_count(count, options) ==
    IF options.count # None THEN count = options.count[1]
    ELSE IF options.minimum # None THEN count >= options.minimum[1]
    ELSE IF options.maximum # None THEN count <= options.maximum[1]
    ELSE IF options.between # None
         THEN options.between[1][1] <= count /\ count <= options.between[1][2]
    ELSE count >= 1

\* Whether the caller explicitly asked for a quantity that admits zero: a
\* property of the options, never of the observed count.
expects_none(options) ==
    Given(options) # {} /\ matches_count(0, options)

\* --------------------------------------------------------------- queries
\* SelectorQuery / TextQuery / StyleQuery construction: the options are
\* validated and `wait` defaults to the process-wide default wait budget.
Query(options, wait, config) ==
    [valid |-> ValidOptions(options),
     options |-> options,
     wait |-> IF wait # None THEN wait[1] ELSE config.default_max_wait_time]

\* query.resolve_for: one evaluator invocation; its errors pass unmodified.
Raises(r) == r.err # "none"

\* The evaluator reported the elements (occurrences) looked for, in the
\* quantity the options ask for.
Found(r, options) ==
    /\ ~Raises(r)
    /\ matches_count(r.count, options)
    /\ r.count > 0 \/ expects_none(options)

\* -------------------------------------------------- bodies of the retries
\* Each is the function decorated with @self.synchronize, applied to the
\* response r of the one evaluation it makes.
assert_selector_any_match(r, options) ==
    IF Raises(r) THEN EvaluatorRaised(r.err)
    ELSE IF ~(r.count > 0 \/ expects_none(options))
         THEN ExpectationNotMet("failure_message", r.count)
    ELSE True

assert_selector_inverted(r, options) ==
    IF Raises(r) THEN EvaluatorRaised(r.err)
    ELSE IF matches_count(r.count, options)
            /\ (r.count > 0 \/ expects_none(options))
         THEN ExpectationNotMet("failure_message", r.count)
    ELSE True

assert_selector_wraps_errors(r, options) ==
    IF Raises(r) THEN ExpectationNotMet("failure_message", 0)
    ELSE IF ~(matches_count(r.count, options)
              /\ (r.count > 0 \/ expects_none(options)))
         THEN ExpectationNotMet("failure_message", r.count)
    ELSE True

assert_selector_stale_message(r, options) ==
    IF Raises(r) THEN EvaluatorRaised(r.err)
    ELSE IF ~(matches_count(r.count, options)
              /\ (r.count > 0 \/ expects_none(options)))
         THEN ExpectationNotMet("failure_message", 0)
    ELSE True

assert_selector(r, options) ==
    IF Raises(r) THEN EvaluatorRaised(r.err)
    ELSE IF ~(matches_count(r.count, options)
              /\ (r.count > 0 \/ expects_none(options)))
         THEN ExpectationNotMet("failure_message", r.count)
    ELSE True

assert_no_selector_any_present(r, options) ==
    IF Raises(r) THEN EvaluatorRaised(r.err)
    ELSE IF r.count > 0
         THEN ExpectationNotMet("negative_failure_message", r.count)
    ELSE True

assert_no_selector(r, options) ==
    IF Raises(r) THEN EvaluatorRaised(r.err)
    ELSE IF matches_count(r.count, options)
            /\ (r.count > 0 \/ expects_none(options))
         THEN ExpectationNotMet("negative_failure_message", r.count)
    ELSE True

assert_text_any_occurrence(r, options) ==
    IF Raises(r) THEN EvaluatorRaised(r.err)
    ELSE IF r.count = 0 THEN ExpectationNotMet("failure_message", r.count)
    ELSE True

assert_text(r, options) ==
    IF Raises(r) THEN EvaluatorRaised(r.err)
    ELSE IF ~(matches_count(r.count, options)
              /\ (r.count > 0 \/ expects_none(options)))
         THEN ExpectationNotMet("failure_message", r.count)
    ELSE True

assert_no_text_any_present(r, options) ==
    IF Raises(r) THEN EvaluatorRaised(r.err)
    ELSE IF r.count > 0
         THEN ExpectationNotMet("negative_failure_message", r.count)
    ELSE True

assert_no_text(r, options) ==
    IF Raises(r) THEN EvaluatorRaised(r.err)
    ELSE IF matches_count(r.count, options)
            /\ (r.count > 0 \/ expects_none(options))
         THEN ExpectationNotMet("negative_failure_message", r.count)
    ELSE True

assert_style_inverted(r) ==
    IF Raises(r) THEN EvaluatorRaised(r.err)
    ELSE IF r.resolves THEN ExpectationNotMet("style failure_message", -1)
    ELSE True

assert_style(r) ==
    IF Raises(r) THEN EvaluatorRaised(r.err)
    ELSE IF ~r.resolves THEN ExpectationNotMet("style failure_message", -1)
    ELSE True

\* Membership by structural equality: any node like this one counts.
assert_matches_selector_by_value(r) ==
    IF Raises(r) THEN EvaluatorRaised(r.err)
    ELSE IF r.result = {}
         THEN ExpectationNotMet("Item does not match the provided selector", -1)
    ELSE True

\* The scope the match query is resolved against: the parent when
\* find_first("xpath", "./parent::*", minimum=0) finds one, else query_scope.
MatchScope(hasParent) == IF hasParent THEN "parent" ELSE "query_scope"

\* `self in result` is identity of the element handle.
assert_matches_selector(r) ==
    IF Raises(r) THEN EvaluatorRaised(r.err)
    ELSE IF "self" \notin r.result
         THEN ExpectationNotMet("Item does not match the provided selector", -1)
    ELSE True

assert_not_match_selector_by_value(r) ==
    IF Raises(r) THEN EvaluatorRaised(r.err)
    ELSE IF r.result # {}
         THEN ExpectationNotMet("Item matched the provided selector", -1)
    ELSE True

assert_not_match_selector(r) ==
    IF Raises(r) THEN EvaluatorRaised(r.err)
    ELSE IF "self" \in r.result
         THEN ExpectationNotMet("Item matched the provided selector", -1)
    ELSE True

\* The body of a single assertion, by name.
Body(op, r, options) ==
    CASE op = "assert_selector" -> assert_selector(r, options)
      [] op = "assert_no_selector" -> assert_no_selector(r, options)
      [] op = "assert_text" -> assert_text(r, options)
      [] op = "assert_no_text" -> assert_no_text(r, options)
      [] op = "assert_style" -> assert_style(r)
      [] op = "assert_matches_selector" -> assert_matches_selector(r)
      [] op = "assert_not_match_selector" -> assert_not_match_selector(r)

\* ------------------------------------------------------ boolean wrappers
has_selector_swallows_all(res) ==
    IF res.kind = "True" THEN True ELSE False

has_selector(res) ==
    IF res.kind = "True" THEN True
    ELSE IF res.kind = "ExpectationNotMet" THEN False
    ELSE res

has_no_selector(res) ==
    IF res.kind = "True" THEN True
    ELSE IF res.kind = "ExpectationNotMet" THEN False
    ELSE res

has_style(res) ==
    IF res.kind = "True" THEN True
    ELSE IF res.kind = "ExpectationNotMet" THEN False
    ELSE res

has_all_of_selectors(res) ==
    IF res.kind = "True" THEN True
    ELSE IF res.kind = "ExpectationNotMet" THEN False
    ELSE res

has_none_of_selectors(res) ==
    IF res.kind = "True" THEN True
    ELSE IF res.kind = "ExpectationNotMet" THEN False
    ELSE res

matches_selector(res) ==
    IF res.kind = "True" THEN True
    ELSE IF res.kind = "ExpectationNotMet" THEN False
    ELSE res

not_match_selector(res) ==
    IF res.kind = "True" THEN True
    ELSE IF res.kind = "ExpectationNotMet" THEN False
    ELSE res

\* has_text and has_no_text return the assertion's own value.
has_text(res) ==
    IF res.kind = "ExpectationNotMet" THEN False ELSE res

has_no_text(res) ==
    IF res.kind = "ExpectationNotMet" THEN False ELSE res

Wrapper(op, res) ==
    CASE op = "assert_selector" -> has_selector(res)
      [] op = "assert_no_selector" -> has_no_selector(res)
      [] op = "assert_style" -> has_style(res)
      [] op = "assert_all_of_selectors" -> has_all_of_selectors(res)
      [] op = "assert_none_of_selectors" -> has_none_of_selectors(res)
      [] op = "assert_matches_selector" -> matches_selector(res)
      [] op = "assert_not_match_selector" -> not_match_selector(res)
      [] op = "assert_text" -> has_text(res)
      [] op = "assert_no_text" -> has_no_text(res)

\* ------------------------------------------------------ synchronization
\* The errors the loop retries: the evaluator's "document changed" signal
\* and ExpectationNotMet.
Retriable(res) == res.kind \in {"TransientStateError", "ExpectationNotMet"}

\* What the loop does with the outcome res of one run of its body at time
\* t, under the deadline dl.  A loop entered inside another one (nested)
\* has no budget of its own: it runs its body once.
synchronize(nested, res, t, dl) ==
    IF res.kind = "True" THEN "return"
    ELSE IF ~nested /\ Retriable(res) /\ t < dl THEN "retry"
    ELSE "raise"

\* A budget that never runs out.
SyncWait_forever(op, wait, query, config) == MaxTime + 1

\* The wait handed to @self.synchronize(wait=...).
SyncWait_zero(op, wait, query, config) == 0

SyncWait_default(op, wait, query, config) == config.default_max_wait_time

SyncWait_per_locator(op, wait, query, config) ==
    IF op \in GroupOps
    THEN (IF wait # None THEN wait[1] ELSE config.default_max_wait_time) * MaxLocs
    ELSE query.wait

SyncWait(op, wait, query, config) ==
    IF op \in GroupOps
    THEN IF wait # None THEN wait[1] ELSE config.default_max_wait_time
    ELSE query.wait

\* The first positional argument is always taken for a locator.
Normalize_always_locator(first, rest, config) ==
    [selector |-> config.default_selector, locators |-> <<first>> \o rest]

\* assert_all_of_selectors / assert_none_of_selectors: the first positional
\* argument is the selector kind, or one more locator.
Normalize(first, rest, config) ==
    IF first = Unhashable \/ first \notin SelectorKinds
    THEN [selector |-> config.default_selector, locators |-> <<first>> \o rest]
    ELSE [selector |-> first, locators |-> rest]

\* The call each group assertion makes for one locator; the wait in kwargs
\* reaches a nested loop, which does not apply it.
SubCall_positive(op, r, options) == assert_selector(r, options)

SubCall(op, r, options) ==
    IF op = "assert_all_of_selectors"
    THEN assert_selector(r, options)
    ELSE assert_no_selector(r, options)

\* --------------------------------------------------------------- state
VARIABLES
    cfg,         \* process-wide configuration
    call,        \* the assertion call in progress: its arguments, and the
                 \* configuration it was made under
    pc,          \* "idle", "sync" (body about to run), "sleep", "done"
    now,         \* clock, counted from the start of the call
    deadline,    \* the loop's deadline
    idx,         \* group assertions: position of the next locator in the pass
    evals,       \* evaluator invocations made by the call
    hits,        \* single assertions: evaluations that found what is looked for
    obs,         \* the evaluator's latest response
    first_error, \* single assertions: the first error the loop retried
    last_error,  \* the loop's record of the latest error
    outcome,     \* what the assert_* returned or raised
    ret,         \* what its boolean wrapper (has_*, matches_*) returns or raises
    seen,        \* group assertions, per locator: how its polls went
    pass_obs,    \* group assertions: the evaluations of the latest pass, in order
    scope,       \* match assertions: what the latest evaluation resolved against
    twin         \* the counterpart call, run on the same responses and clock

vars == <<cfg, call, pc, now, deadline, idx, evals, hits, obs, first_error,
          last_error, outcome, ret, seen, pass_obs, scope, twin>>

Positions == 1..(MaxLocs + 1)
NoCall == [op |-> "none", first |-> "css", rest |-> <<>>,
           options |-> NoOptions, wait |-> None, hasParent |-> FALSE,
           config |-> [default_max_wait_time |-> MaxWait,
                       default_selector |-> "css"]]
Unpolled == [i \in Positions |-> "unpolled"]
NoTwin == [op |-> "none", options |-> NoOptions, pc |-> "idle", evals |-> 0,
           outcome |-> NoResult]

Rests == {SubSeq(LocatorNames, 1, n) : n \in 0..MaxLocs}
FirstArgs == {"xpath", "#z", Unhashable}
Configs == {[default_max_wait_time |-> MaxWait, default_selector |-> "css"],
            [default_max_wait_time |-> 0, default_selector |-> "xpath"]}

\* The option bags the group assertions are called with.
GroupOptionBags ==
    {NoOptions,
     [NoOptions EXCEPT !.count = Some(0)],
     [NoOptions EXCEPT !.minimum = Some(MaxCount)],
     [NoOptions EXCEPT !.count = Some(0), !.minimum = Some(0)]}

\* The option bags the assertions that count nothing (style, match) are
\* called with.
PlainOptionBags ==
    {NoOptions, [NoOptions EXCEPT !.count = Some(0), !.minimum = Some(0)]}

Locators == Normalize(call.first, call.rest, cfg).locators
TheSelector == Normalize(call.first, call.rest, cfg).selector
TheQuery == Query(call.options, call.wait, cfg)

\* The retried body starts over: its for loop begins at the first locator,
\* whichever locator failed.
RestartAt_resume(failed) == failed

RestartAt(failed) == 1

\* The call the docstring of assert_selector names as the equal of this
\* one: count=0 against assert_no_selector without a quantity.  A text
\* assertion has the selector assertion of its polarity, same options.
Counterpart(op, options) ==
    IF op = "assert_selector" /\ options = [NoOptions EXCEPT !.count = Some(0)]
    THEN [NoTwin EXCEPT !.op = "assert_no_selector"]
    ELSE IF op = "assert_no_selector" /\ options = NoOptions
    THEN [NoTwin EXCEPT !.op = "assert_selector",
                        !.options = [NoOptions EXCEPT !.count = Some(0)]]
    ELSE IF op = "assert_text"
    THEN [NoTwin EXCEPT !.op = "assert_selector", !.options = options]
    ELSE IF op = "assert_no_text"
    THEN [NoTwin EXCEPT !.op = "assert_no_selector", !.options = options]
    ELSE NoTwin

\* The counterpart call makes its evaluation on the same response r, under
\* the same clock and deadline.
TwinPoll(r) ==
    IF twin.pc # "sync" THEN twin
    ELSE LET res == Body(twin.op, r, twin.options)
             d == synchronize(FALSE, res, now, deadline) IN
         [twin EXCEPT !.pc = IF d = "retry" THEN "sleep" ELSE "done",
                      !.evals = @ + 1,
                      !.outcome = IF d = "retry" THEN @ ELSE res]

Init ==
    /\ cfg = [default_max_wait_time |-> MaxWait, default_selector |-> "css"]
    /\ call = NoCall /\ pc = "idle" /\ now = 0 /\ deadline = 0 /\ idx = 1
    /\ evals = 0 /\ hits = 0 /\ obs = NoResponse
    /\ first_error = NoResult /\ last_error = NoResult
    /\ outcome = NoResult /\ ret = NoResult /\ seen = Unpolled
    /\ pass_obs = <<>> /\ scope = "none" /\ twin = NoTwin

\* capybara.default_max_wait_time / capybara.default_selector set by the
\* caller between calls.
Configure(c) ==
    /\ pc = "idle"
    /\ cfg' = c
    /\ cfg' # cfg
    /\ UNCHANGED <<call, pc, now, deadline, idx, evals, hits, obs, first_error,
                   last_error, outcome, ret, seen, pass_obs, scope, twin>>

\* The call ends with res.
Finish(res) ==
    /\ pc' = "done"
    /\ outcome' = res
    /\ ret' = Wrapper(call.op, res)

\* The loop's step on the outcome res of a run of its body.
Loop(res) ==
    LET d == synchronize(FALSE, res, now, deadline) IN
    /\ IF d = "retry"
       THEN pc' = "sleep" /\ UNCHANGED <<outcome, ret>>
       ELSE Finish(res)
    /\ last_error' = IF d = "return" THEN last_error ELSE res

\* The loop is entered whatever the options are.
CallSingle_unvalidated(op, options, wait, hasParent) ==
    /\ pc = "idle"
    /\ hasParent => op \in MatchOps
    /\ op \notin SingleCountOps => options \in PlainOptionBags
    /\ call' = [op |-> op, first |-> "css", rest |-> <<"#a">>,
                options |-> options, wait |-> wait, hasParent |-> hasParent,
                config |-> cfg]
    /\ pc' = "sync"
    /\ deadline' = now + SyncWait(op, wait, Query(options, wait, cfg), cfg)
    /\ twin' = LET c == Counterpart(op, options) IN
               IF c.op = "none" THEN c ELSE [c EXCEPT !.pc = pc']
    /\ UNCHANGED <<cfg, now, idx, evals, hits, obs, first_error, last_error, seen,
                   pass_obs, scope, outcome, ret>>

\* A single assertion is called: the query is built first (an invalid
\* option bag raises there), then the loop starts.
CallSingle(op, options, wait, hasParent) ==
    /\ pc = "idle"
    /\ hasParent => op \in MatchOps
    /\ op \notin SingleCountOps => options \in PlainOptionBags
    /\ call' = [op |-> op, first |-> "css", rest |-> <<"#a">>,
                options |-> options, wait |-> wait, hasParent |-> hasParent,
                config |-> cfg]
    /\ LET q == Query(options, wait, cfg) IN
       IF q.valid
       THEN /\ pc' = "sync"
            /\ deadline' = now + SyncWait(op, wait, q, cfg)
            /\ UNCHANGED <<outcome, ret>>
       ELSE /\ pc' = "done"
            /\ outcome' = ConfigurationError
            /\ ret' = Wrapper(op, ConfigurationError)
            /\ UNCHANGED deadline
    /\ twin' = LET c == Counterpart(op, options) IN
               IF c.op = "none" THEN c
               ELSE [c EXCEPT !.pc = pc',
                              !.outcome = IF ValidOptions(c.options) THEN @
                                          ELSE ConfigurationError]
    /\ UNCHANGED <<cfg, now, idx, evals, hits, obs, first_error, last_error, seen,
                   pass_obs, scope>>

\* The selector kind is assigned to the process-wide default instead of
\* the local name.
CallGroup_writes_default(op, first, rest, options, wait) ==
    /\ pc = "idle"
    /\ Len(Normalize(first, rest, cfg).locators) <= MaxLocs
    /\ call' = [op |-> op, first |-> first, rest |-> rest,
                options |-> options, wait |-> wait, hasParent |-> FALSE,
                config |-> cfg]
    /\ pc' = "sync"
    /\ deadline' = now + SyncWait(op, wait, Query(options, wait, cfg), cfg)
    /\ cfg' = [cfg EXCEPT !.default_selector = Normalize(first, rest, cfg).selector]
    /\ UNCHANGED <<now, idx, evals, hits, obs, first_error, last_error,
                   outcome, ret, seen, pass_obs, scope, twin>>

\* A group assertion is called: the loop starts; queries are built per
\* locator inside its body.
CallGroup(op, first, rest, options, wait) ==
    /\ pc = "idle"
    /\ Len(Normalize(first, rest, cfg).locators) <= MaxLocs
    /\ call' = [op |-> op, first |-> first, rest |-> rest,
                options |-> options, wait |-> wait, hasParent |-> FALSE,
                config |-> cfg]
    /\ pc' = "sync"
    /\ deadline' = now + SyncWait(op, wait, Query(options, wait, cfg), cfg)
    /\ UNCHANGED <<cfg, now, idx, evals, hits, obs, first_error, last_error,
                   outcome, ret, seen, pass_obs, scope, twin>>

\* One run of a single assertion's body: one evaluation with response r.
Poll(r) ==
    /\ pc = "sync" /\ call.op \in SingleOps
    /\ r \in ResponsesFor(call.op)
    /\ Loop(Body(call.op, r, TheQuery.options))
    /\ first_error' = IF pc' = "sleep" /\ first_error = NoResult
                      THEN last_error' ELSE first_error
    /\ hits' = IF Found(r, TheQuery.options) THEN hits + 1 ELSE hits
    /\ evals' = evals + 1
    /\ obs' = r
    /\ scope' = IF call.op \in MatchOps THEN MatchScope(call.hasParent) ELSE scope
    /\ twin' = TwinPoll(r)
    /\ UNCHANGED <<cfg, call, now, deadline, idx, seen, pass_obs>>

\* Group assertion, the next locator of the pass: its query is built and
\* evaluated once with response r by the nested assertion.
PollLocator(r) ==
    /\ pc = "sync" /\ call.op \in GroupOps
    /\ idx <= Len(Locators)
    /\ TheQuery.valid
    /\ r \in ResponsesFor(call.op)
    /\ LET res == SubCall(call.op, r, TheQuery.options)
           inner == synchronize(TRUE, res, now, deadline) IN
       IF inner = "return"
       THEN IF idx < Len(Locators)
            THEN /\ idx' = idx + 1
                 /\ UNCHANGED <<pc, outcome, ret, last_error>>
            ELSE Loop(True) /\ idx' = 1
       ELSE Loop(res) /\ idx' = RestartAt(idx)
    /\ seen' = [seen EXCEPT ![idx] =
                  IF Raises(r) THEN @
                  ELSE IF ~Found(r, TheQuery.options) THEN "absent"
                  ELSE IF @ = "unpolled" THEN "present" ELSE @]
    /\ evals' = evals + 1
    /\ obs' = r
    /\ pass_obs' = Append(pass_obs, [locator |-> Locators[idx],
                                      selector |-> TheSelector,
                                      found |-> Found(r, TheQuery.options),
                                      raised |-> Raises(r)])
    /\ UNCHANGED <<cfg, call, now, deadline, hits, first_error, scope, twin>>

\* Group assertion, the nested assertion's query construction raises
\* ConfigurationError inside the body of the loop.
ConstructFails ==
    /\ pc = "sync" /\ call.op \in GroupOps
    /\ idx <= Len(Locators)
    /\ ~TheQuery.valid
    /\ Loop(ConfigurationError)
    /\ UNCHANGED <<cfg, call, now, deadline, idx, evals, hits, obs, first_error,
                   seen, pass_obs, scope, twin>>

\* Group assertion with no locator at all: the body returns True.
EmptyPass ==
    /\ pc = "sync" /\ call.op \in GroupOps
    /\ Len(Locators) = 0
    /\ Loop(True)
    /\ UNCHANGED <<cfg, call, now, deadline, idx, evals, hits, obs, first_error,
                   seen, pass_obs, scope, twin>>

\* Time passes: the loop's pause ends, or an evaluation is slow to start.
Tick ==
    /\ pc \in {"sync", "sleep"}
    /\ now < MaxTime
    /\ now' = now + 1
    /\ pc' = "sync"
    /\ pass_obs' = IF pc = "sleep" THEN <<>> ELSE pass_obs
    /\ twin' = IF twin.pc = "sleep" THEN [twin EXCEPT !.pc = "sync"] ELSE twin
    /\ UNCHANGED <<cfg, call, deadline, idx, evals, hits, obs, first_error,
                   last_error, outcome, ret, seen, scope>>

\* The call is over; nothing of it is kept.
Return ==
    /\ pc = "done"
    /\ call' = NoCall /\ pc' = "idle" /\ now' = 0 /\ deadline' = 0 /\ idx' = 1
    /\ evals' = 0 /\ hits' = 0 /\ obs' = NoResponse
    /\ first_error' = NoResult /\ last_error' = NoResult
    /\ outcome' = NoResult /\ ret' = NoResult /\ seen' = Unpolled
    /\ pass_obs' = <<>> /\ scope' = "none" /\ twin' = NoTwin
    /\ UNCHANGED cfg

Next ==
    \/ \E c \in Configs : Configure(c)
    \/ \E op \in SingleOps, o \in OptionBags, w \in WaitOptions, p \in BOOLEAN :
          CallSingle(op, o, w, p)
    \/ \E op \in GroupOps, f \in FirstArgs, rs \in Rests, o \in GroupOptionBags,
          w \in WaitOptions : CallGroup(op, f, rs, o, w)
    \/ \E r \in CountResponses \cup StyleResponses \cup MatchResponses \cup ErrorResponses :
          Poll(r)
    \/ \E r \in CountResponses \cup ErrorResponses : PollLocator(r)
    \/ ConstructFails
    \/ EmptyPass
    \/ Tick
    \/ Return

Spec == Init /\ [][Next]_vars

\* The thread that made the call keeps running: the evaluator answers, a
\* pause ends, the clock moves on.
Progress ==
    \/ \E r \in CountResponses \cup StyleResponses \cup MatchResponses \cup ErrorResponses :
          Poll(r)
    \/ \E r \in CountResponses \cup ErrorResponses : PollLocator(r)
    \/ ConstructFails
    \/ EmptyPass
    \/ Tick

FairSpec == Spec /\ WF_vars(Progress)

\* ============================================================ properties
\* The wait budget the caller asked for: the wait option, else the default.
EffectiveWait == IF call.wait # None THEN call.wait[1] ELSE cfg.default_max_wait_time

\* The outcome of the latest run of the loop's body.
Latest == IF pc = "done" THEN outcome ELSE last_error

\* The options name a quantity that zero occurrences meet.
AsksForZero(o) ==
    \/ o.count = Some(0)
    \/ o.minimum = Some(0)
    \/ o.maximum # None
    \/ o.between # None /\ o.between[1][1] = 0

\* C1: one evaluation inside assert_selector that observes the count n passes
\* exactly when n satisfies the count constraint and (n > 0 or the options
\* expect none), and raises ExpectationNotMet otherwise; with no quantity
\* option and n = 0 it raises, and with n = 0 it passes exactly when the
\* options ask for a quantity that admits zero.
C1_EvaluationRule ==
    (call.op = "assert_selector" /\ evals >= 1 /\ ~Raises(obs)) =>
        LET n == obs.count
            o == call.options IN
        /\ (Latest = True) <=> (matches_count(n, o) /\ (n > 0 \/ expects_none(o)))
        /\ Latest # True => Latest = ExpectationNotMet("failure_message", n)
        /\ (n = 0 /\ o = NoOptions) => Latest.kind = "ExpectationNotMet"
        /\ n = 0 => ((Latest = True) <=> AsksForZero(o))
        /\ (n > 0 /\ o = NoOptions) => Latest = True

C1_Witness ==
    /\ call.op = "assert_selector" /\ pc = "done" /\ evals = 1
    /\ obs.err = "none" /\ obs.count = 0
    /\ call.options.maximum = Some(1)
    /\ outcome = True

\* C2: in assert_selector an evaluation that finds what is looked for is the
\* last one of the call: the call is over with True and the evaluator is not
\* invoked again; when the first evaluation succeeds the evaluator was
\* invoked exactly once, whatever the budget.
C2_NoPollAfterSuccess ==
    (call.op = "assert_selector" /\ hits >= 1) =>
        /\ hits = 1
        /\ pc = "done" /\ outcome = True
        /\ ~ENABLED (\E r \in CountResponses \cup ErrorResponses : Poll(r))
        /\ first_error = NoResult => evals = 1

C2_Witness ==
    /\ call.op = "assert_selector" /\ pc = "done" /\ outcome = True
    /\ evals = 1 /\ now = 0 /\ EffectiveWait = MaxWait /\ MaxWait >= 2

\* C3: assert_selector with the default constraint: an attempt that observes
\* a satisfying count ends the call with True, whatever failed before; an
\* ExpectationNotMet of an attempt made before the deadline is retried and
\* does not reach the caller.
C3_LateSuccess ==
    (call.op = "assert_selector" /\ call.options = NoOptions) =>
        /\ (pc = "done" /\ ~Raises(obs) /\ obs.count >= 1) =>
              outcome = True /\ ret = True
        /\ pc # "done" => outcome = NoResult
        /\ (pc = "done" /\ outcome.kind = "ExpectationNotMet") => now >= EffectiveWait

C3_Witness ==
    /\ call.op = "assert_selector" /\ call.options = NoOptions
    /\ pc = "done" /\ outcome = True
    /\ evals = 3 /\ obs.count = 1
    /\ first_error = ExpectationNotMet("failure_message", 0)
    /\ last_error = ExpectationNotMet("failure_message", 0)

\* C4: when assert_selector ends without any evaluation having found what is
\* looked for and its last evaluation reported a count, it raises
\* ExpectationNotMet, no earlier than the full wait budget after the start,
\* and the error is the one of the last evaluation (it carries the last
\* observed count).
C4_RaisesLastErrorAtExpiry ==
    (call.op = "assert_selector" /\ pc = "done" /\ evals >= 1
       /\ hits = 0 /\ ~Raises(obs)) =>
        /\ outcome = ExpectationNotMet("failure_message", obs.count)
        /\ outcome = last_error
        /\ now >= EffectiveWait

C4_Witness ==
    /\ call.op = "assert_selector" /\ pc = "done"
    /\ outcome.kind = "ExpectationNotMet"
    /\ evals >= 2 /\ EffectiveWait >= 1
    /\ first_error.kind = "ExpectationNotMet"
    /\ first_error.count # outcome.count
    /\ outcome.count = obs.count

\* C5: with wait = 0 assert_selector, assert_no_selector, assert_text and
\* assert_no_text, once their query is built, invoke the evaluator exactly
\* once (the call is not over before that evaluation and is over right after
\* it), and what they return or raise is what the body makes of that one
\* response.
C5_ZeroWaitOnce ==
    (call.op \in SingleCountOps /\ call.wait = Some(0) /\ ValidOptions(call.options)) =>
        /\ evals <= 1
        /\ pc # "sleep"
        /\ (pc = "done") <=> (evals = 1)
        /\ pc = "done" =>
              LET positive == call.op \in {"assert_selector", "assert_text"} IN
              /\ (outcome = True) <=>
                    (~Raises(obs) /\ (Found(obs, call.options) <=> positive))
              /\ outcome.kind = "ExpectationNotMet" <=>
                    (~Raises(obs) /\ (Found(obs, call.options) <=> ~positive))
              /\ Raises(obs) => outcome = EvaluatorRaised(obs.err)

C5_Witness ==
    /\ call.op = "assert_no_text" /\ call.wait = Some(0)
    /\ cfg.default_max_wait_time >= 1
    /\ pc = "done" /\ evals = 1 /\ outcome.kind = "ExpectationNotMet"

\* C6: assert_all_of_selectors fails with ExpectationNotMet only on an
\* evaluation made at or after the group budget W that finds a locator
\* unsatisfied; so when every locator is satisfied from some time before W
\* on (and the evaluator raises nothing), the call returns True, however
\* long the earlier locators were waited for.
C6_AllOfWithinBudget ==
    (call.op = "assert_all_of_selectors" /\ pc = "done" /\ evals >= 1) =>
        /\ outcome.kind = "ExpectationNotMet" =>
              (now >= EffectiveWait /\ ~Raises(obs) /\ ~Found(obs, call.options))
        /\ (~Raises(obs) /\ (now < EffectiveWait \/ Found(obs, call.options))) =>
              outcome = True

C6_Witness ==
    /\ call.op = "assert_all_of_selectors" /\ pc = "done" /\ outcome = True
    /\ Len(Locators) = 2
    /\ seen[1] = "present" /\ seen[2] = "absent"
    /\ EffectiveWait = MaxWait /\ now = MaxWait - 1 /\ now >= 1

\* C7: in assert_all_of_selectors and assert_none_of_selectors a retry is
\* granted only before the group budget W has elapsed, whichever locator
\* failed, and the call makes at most W + 1 passes over its N locators (one
\* evaluation per locator and pass), never N times W.
C7_GroupSharesDeadline ==
    call.op \in GroupOps =>
        /\ pc = "sleep" => now < EffectiveWait
        /\ evals <= (EffectiveWait + 1) * Len(Locators)
        /\ (pc = "done" /\ Retriable(outcome)) => now >= EffectiveWait

C7_Witness ==
    /\ call.op = "assert_none_of_selectors" /\ pc = "done"
    /\ outcome.kind = "ExpectationNotMet"
    /\ Len(Locators) = 2 /\ EffectiveWait >= 2
    /\ now = EffectiveWait
    /\ evals = (EffectiveWait + 1) * Len(Locators)

\* C8: assert_none_of_selectors does not return True when some locator, at
\* any position, was found (present and satisfying its constraint) at every
\* poll made of it; unless the evaluator raised, it raises ExpectationNotMet,
\* at or after the budget.
C8_NoneOfRaisesOnPresent ==
    (call.op = "assert_none_of_selectors" /\ pc = "done"
       /\ \E i \in 1..Len(Locators) : seen[i] = "present") =>
        /\ outcome # True
        /\ ~Raises(obs) =>
              (outcome.kind = "ExpectationNotMet" /\ now >= EffectiveWait)

C8_Witness ==
    /\ call.op = "assert_none_of_selectors" /\ pc = "done"
    /\ outcome.kind = "ExpectationNotMet"
    /\ Len(Locators) = 2
    /\ seen[1] = "absent" /\ seen[2] = "present"
    /\ evals >= 4

\* C9: every boolean wrapper returns True exactly when its assert_* returns,
\* False exactly when it raises ExpectationNotMet, and raises any other
\* error unchanged.
C9_WrapperContract ==
    pc = "done" =>
        /\ (ret = True) <=> (outcome = True)
        /\ (ret = False) <=> (outcome.kind = "ExpectationNotMet")
        /\ outcome.kind \notin {"True", "ExpectationNotMet"} => ret = outcome

C9_Witness ==
    /\ pc = "done" /\ call.op = "assert_selector"
    /\ outcome = ConfigurationError /\ ret = ConfigurationError

\* C10: a TransientStateError of the evaluator ends an assertion only when it
\* is raised at or after the deadline; it is then raised as it is (never as
\* ExpectationNotMet), and the boolean wrapper raises it too.
C10_TransientAbsorbed ==
    /\ (pc = "done" /\ outcome.kind = "TransientStateError") =>
          /\ now >= EffectiveWait
          /\ obs.err = "TransientStateError"
          /\ outcome = EvaluatorRaised("TransientStateError")
          /\ ret = outcome
    /\ (pc = "done" /\ obs.err = "TransientStateError") =>
          outcome.kind = "TransientStateError"
    /\ (pc = "sleep" /\ obs.err = "TransientStateError") =>
          (last_error = EvaluatorRaised("TransientStateError") /\ ret = NoResult)

C10_Witness ==
    /\ pc = "done" /\ call.op = "assert_selector"
    /\ outcome = EvaluatorRaised("TransientStateError")
    /\ first_error = EvaluatorRaised("TransientStateError")
    /\ evals >= 2 /\ now = EffectiveWait
    /\ ret.kind = "TransientStateError"


\* C11: an error of the evaluator that is not retriable ends the call at the
\* evaluation that raised it: the call is over with that very error, no
\* evaluation and no pause follows it, and in a group assertion the pass
\* stops there, the locators after it left unevaluated.
C11_NonRetriableRaisedAtOnce ==
    (call.op # "none" /\ obs.err = "EvaluatorFailure") =>
        /\ pc = "done"
        /\ outcome = EvaluatorRaised("EvaluatorFailure")
        /\ call.op \in GroupOps =>
              /\ pass_obs # <<>>
              /\ pass_obs[Len(pass_obs)].raised
              /\ \A k \in 1..(Len(pass_obs) - 1) : ~pass_obs[k].raised

\* A group assertion over two locators, with budget left, is ended by the
\* evaluator's failure on the first locator; the second was never evaluated.
C11_Witness ==
    /\ call.op = "assert_all_of_selectors"
    /\ Len(Locators) = 2
    /\ obs.err = "EvaluatorFailure"
    /\ pc = "done"
    /\ Len(pass_obs) = 1
    /\ seen[2] = "unpolled"
    /\ evals = 1
    /\ now < deadline


\* C12: options that conflict or are invalid raise ConfigurationError where
\* the query is built, before any evaluation: the evaluator is never invoked
\* and the error is never retried.  A single assertion raises it before its
\* loop starts; a group assertion raises it in the first run of its body,
\* whatever budget is left, and only there is a query ever built.
C12_ConfigurationErrorBeforeEvaluation ==
    /\ (call.op # "none" /\ ~ValidOptions(call.options)) =>
          /\ evals = 0
          /\ pc # "sleep"
          /\ last_error \in {NoResult, ConfigurationError}
          /\ call.op \in SingleOps =>
                pc = "done" /\ outcome = ConfigurationError /\ now = 0
          /\ (call.op \in GroupOps /\ pc = "done") =>
                outcome = IF Len(Locators) = 0 THEN True ELSE ConfigurationError
    /\ outcome = ConfigurationError =>
          ~ValidOptions(call.options) /\ evals = 0 /\ obs = NoResponse

\* A group assertion over two locators, called with conflicting options and
\* a budget, has raised ConfigurationError with budget left and nothing
\* evaluated.
C12_Witness ==
    /\ call.op = "assert_none_of_selectors"
    /\ Len(Locators) = 2
    /\ ~ValidOptions(call.options)
    /\ pc = "done"
    /\ outcome = ConfigurationError
    /\ evals = 0
    /\ now < deadline


\* C13: one evaluation inside assert_no_selector that observes the count n
\* raises ExpectationNotMet exactly when n satisfies the count constraint and
\* (n > 0 or the options expect none), and passes otherwise; with n > 0
\* elements present, count=c raises exactly when c = n and minimum=m raises
\* exactly when m <= n.
C13_NegativeEvaluationRule ==
    (call.op = "assert_no_selector" /\ evals >= 1 /\ ~Raises(obs)) =>
        LET n == obs.count
            o == call.options IN
        /\ (Latest.kind = "ExpectationNotMet")
              <=> (matches_count(n, o) /\ (n > 0 \/ expects_none(o)))
        /\ Latest.kind = "ExpectationNotMet"
              => Latest = ExpectationNotMet("negative_failure_message", n)
        /\ Latest.kind # "ExpectationNotMet" => Latest = True
        /\ \A c \in 0..MaxCount :
              (n > 0 /\ o = [NoOptions EXCEPT !.count = Some(c)])
                 => ((Latest = True) <=> c # n)
        /\ \A m \in 0..MaxCount :
              (n > 0 /\ o = [NoOptions EXCEPT !.minimum = Some(m)])
                 => ((Latest = True) <=> m > n)

\* Fewer elements are present than the count asked for: assert_no_selector
\* has returned True at its first evaluation.
C13_Witness ==
    /\ call.op = "assert_no_selector" /\ pc = "done" /\ evals = 1
    /\ obs.err = "none" /\ obs.count = MaxCount - 1
    /\ call.options = [NoOptions EXCEPT !.count = Some(MaxCount)]
    /\ outcome = True


\* C14: assert_selector with count=0 and assert_no_selector with no quantity
\* option, given the same wait and run on the same sequence of evaluator
\* responses, go through the loop in step: at every moment both are retrying
\* or both are over, after the same number of evaluations, and they end
\* alike, with True, with ExpectationNotMet or with the evaluator's error.
C14_CountZeroEqualsNoSelector ==
    (twin.op # "none" /\ call.op \in {"assert_selector", "assert_no_selector"}) =>
        /\ twin.pc = pc
        /\ twin.evals = evals
        /\ twin.outcome.kind = outcome.kind
        /\ outcome.kind \in {"none", "True", "ExpectationNotMet",
                             "TransientStateError", "EvaluatorFailure"}
        /\ (evals >= 1 /\ ~Raises(obs)) => ((Latest = True) <=> obs.count = 0)

\* assert_selector with count=0 and its counterpart have both raised
\* ExpectationNotMet at the deadline, after the same two evaluations or more.
C14_Witness ==
    /\ call.op = "assert_selector"
    /\ twin.op = "assert_no_selector"
    /\ pc = "done" /\ twin.pc = "done"
    /\ evals >= 2 /\ twin.evals = evals
    /\ outcome = ExpectationNotMet("failure_message", obs.count)
    /\ twin.outcome = ExpectationNotMet("negative_failure_message", obs.count)
    /\ now = deadline


\* C15: one evaluation inside assert_matches_selector passes exactly when
\* the current node itself is in the result set, resolved against the parent
\* when the node has one and against the query scope otherwise; another node
\* like it in the result set does not make it pass, and a failure raises
\* ExpectationNotMet("Item does not match the provided selector").
C15_MatchIsIdentity ==
    (call.op = "assert_matches_selector" /\ evals >= 1) =>
        /\ scope = IF call.hasParent THEN "parent" ELSE "query_scope"
        /\ ~Raises(obs) =>
              /\ (Latest = True) <=> ("self" \in obs.result)
              /\ Latest # True =>
                    Latest = ExpectationNotMet(
                                "Item does not match the provided selector", -1)
              /\ obs.result = {"twin"} => Latest.kind = "ExpectationNotMet"

\* A node without parent: the result set, resolved against the query scope,
\* holds only its twin, and the assertion has raised.
C15_Witness ==
    /\ call.op = "assert_matches_selector" /\ ~call.hasParent
    /\ pc = "done" /\ evals >= 1
    /\ obs.err = "none" /\ obs.result = {"twin"}
    /\ scope = "query_scope"
    /\ outcome.kind = "ExpectationNotMet"


\* The first positional argument of the group call names a selector kind.
Recognized == call.first # Unhashable /\ call.first \in SelectorKinds

\* C16: in assert_all_of_selectors and assert_none_of_selectors a first
\* positional argument that is not a recognized selector kind, or is not
\* hashable, is checked as one more locator, before the others, under the
\* default selector kind; a recognized one is the selector kind of every
\* check and is not itself checked.  The locators are checked in order, and
\* a pass that succeeds has checked every one of them.
C16_FirstArgumentNormalised ==
    call.op \in GroupOps =>
        LET expected == IF Recognized THEN call.rest
                        ELSE <<call.first>> \o call.rest
            kind == IF Recognized THEN call.first ELSE cfg.default_selector IN
        /\ Len(pass_obs) <= Len(expected)
        /\ \A k \in 1..Len(pass_obs) :
              /\ pass_obs[k].locator = expected[k]
              /\ pass_obs[k].selector = kind
        /\ (pc = "done" /\ outcome = True) => Len(pass_obs) = Len(expected)

\* The first argument is not hashable: it was checked first, under the
\* default selector kind, then the other locator, and the call returned True.
C16_Witness ==
    /\ call.op = "assert_all_of_selectors"
    /\ call.first = Unhashable /\ Len(call.rest) = 1
    /\ pc = "done" /\ outcome = True
    /\ Len(pass_obs) = 2
    /\ pass_obs[1].locator = Unhashable
    /\ pass_obs[1].selector = cfg.default_selector
    /\ pass_obs[2].locator = call.rest[1]


\* C17: every assertion call terminates: whatever the wait, zero included,
\* and whatever the evaluator answers, a transient error on every attempt
\* included, a call in progress comes to its end, returning or raising.
C17_Terminates == (pc \in {"sync", "sleep"}) ~> (pc = "done")

\* One attempt was made at every instant up to the deadline, none found
\* anything, the first and the last raised a transient error, and the call
\* is over with that error.
C17_Witness ==
    /\ call.op = "assert_selector"
    /\ pc = "done"
    /\ EffectiveWait = MaxWait
    /\ evals = MaxWait + 1
    /\ hits = 0
    /\ first_error.kind = "TransientStateError"
    /\ outcome.kind = "TransientStateError"
    /\ now = deadline


\* C18: within one pass of assert_all_of_selectors the locators are checked
\* one after the other in argument order, and the pass stops at the first
\* locator whose check fails, those after it left unevaluated in that pass;
\* a retry starts again from the first locator; the ExpectationNotMet the
\* call raises, at the deadline or after it, is that of the first failing
\* locator of the last pass.
C18_PassStopsAtFirstFailure ==
    (call.op = "assert_all_of_selectors" /\ ValidOptions(call.options)) =>
        LET n == Len(pass_obs) IN
        /\ n <= Len(Locators)
        /\ \A k \in 1..n : pass_obs[k].locator = Locators[k]
        /\ \A k \in 1..(n - 1) : pass_obs[k].found
        /\ pc = "sync" => (idx = n + 1 /\ \A k \in 1..n : pass_obs[k].found)
        /\ pc = "sleep" => (idx = 1 /\ n >= 1 /\ ~pass_obs[n].found)
        /\ (pc = "done" /\ outcome.kind = "ExpectationNotMet") =>
              /\ n >= 1
              /\ ~pass_obs[n].found /\ ~pass_obs[n].raised
              /\ outcome = ExpectationNotMet("failure_message", obs.count)
              /\ now >= deadline

\* Two locators: an earlier pass got as far as the second one, the last pass
\* failed at the first, at the deadline, and the call raised its error with
\* the second locator left unevaluated in that pass.
C18_Witness ==
    /\ call.op = "assert_all_of_selectors"
    /\ Len(Locators) = 2
    /\ pc = "done" /\ outcome.kind = "ExpectationNotMet"
    /\ seen[2] # "unpolled"
    /\ Len(pass_obs) = 1
    /\ ~pass_obs[1].found
    /\ now = deadline /\ now >= 1


\* C19: assert_all_of_selectors returns True only if every locator passed
\* its presence check within one and the same pass, the last one: what a
\* locator showed in an earlier pass does not count, and a locator that fails
\* in the current pass makes that pass fail.
C19_AllInOnePass ==
    (call.op = "assert_all_of_selectors" /\ ValidOptions(call.options)) =>
        /\ (pc = "done" /\ outcome = True) =>
              /\ Len(pass_obs) = Len(Locators)
              /\ \A k \in 1..Len(pass_obs) :
                    pass_obs[k].found /\ pass_obs[k].locator = Locators[k]
        /\ (\E k \in 1..Len(pass_obs) : ~pass_obs[k].found) =>
              /\ pc \in {"sleep", "done"}
              /\ outcome # True
              /\ ret # True

\* Two locators: a pass failed, and the call returned True from a later
\* pass that found both.
C19_Witness ==
    /\ call.op = "assert_all_of_selectors"
    /\ Len(Locators) = 2
    /\ pc = "done" /\ outcome = True
    /\ last_error.kind = "ExpectationNotMet"
    /\ seen[2] = "absent"
    /\ Len(pass_obs) = 2
    /\ pass_obs[1].found /\ pass_obs[2].found
    /\ evals >= 4


\* C20: assert_none_of_selectors returns True as soon as one pass finds every
\* locator failing its presence check: the call is over at the last
\* evaluation of that pass, without waiting out the budget, and a locator
\* that was present in an earlier pass does not make it fail.
C20_NoneOfReturnsAtFirstCleanPass ==
    (call.op = "assert_none_of_selectors" /\ ValidOptions(call.options)
       /\ Len(Locators) >= 1) =>
        LET clean == /\ Len(pass_obs) = Len(Locators)
                     /\ \A k \in 1..Len(pass_obs) :
                           ~pass_obs[k].found /\ ~pass_obs[k].raised IN
        /\ clean => (pc = "done" /\ outcome = True /\ ret = True)
        /\ (pc = "done" /\ outcome = True) => clean

\* Two locators: the first was present in the first pass; in the second pass
\* both were absent and the call returned True with budget left.
C20_Witness ==
    /\ call.op = "assert_none_of_selectors"
    /\ Len(Locators) = 2
    /\ pc = "done" /\ outcome = True
    /\ last_error.kind = "ExpectationNotMet"
    /\ evals = 3
    /\ seen[1] = "absent" /\ seen[2] = "absent"
    /\ now < deadline


\* The assertion of the other polarity.
Opposite(op) ==
    CASE op = "assert_selector" -> "assert_no_selector"
      [] op = "assert_no_selector" -> "assert_selector"
      [] op = "assert_text" -> "assert_no_text"
      [] op = "assert_no_text" -> "assert_text"
      [] op = "assert_matches_selector" -> "assert_not_match_selector"
      [] op = "assert_not_match_selector" -> "assert_matches_selector"

\* C21: on one evaluation that observes a count, under the same options,
\* exactly one of assert_selector and assert_no_selector passes and the
\* other raises ExpectationNotMet, and so for assert_text and assert_no_text;
\* hence with a wait of zero, on the same observation, has_selector and
\* has_no_selector (has_text and has_no_text) return opposite booleans.
C21_PolarityDuality ==
    (call.op \in SingleCountOps /\ evals >= 1 /\ ~Raises(obs)) =>
        LET mine == Body(call.op, obs, call.options)
            other == Body(Opposite(call.op), obs, call.options) IN
        /\ Latest = mine
        /\ (mine = True) # (other = True)
        /\ mine # True => mine.kind = "ExpectationNotMet"
        /\ other # True => other.kind = "ExpectationNotMet"
        /\ EffectiveWait = 0 =>
              /\ pc = "done" /\ evals = 1
              /\ ret \in {True, False}
              /\ Wrapper(Opposite(call.op), other) \in {True, False}
              /\ ret # Wrapper(Opposite(call.op), other)

\* has_text with a wait of zero and count=MaxCount sees fewer occurrences
\* and returns False, where has_no_text returns True.
C21_Witness ==
    /\ call.op = "assert_text" /\ EffectiveWait = 0
    /\ call.options = [NoOptions EXCEPT !.count = Some(MaxCount)]
    /\ pc = "done" /\ evals = 1
    /\ obs.err = "none" /\ obs.count = MaxCount - 1
    /\ ret = False
    /\ has_no_text(assert_no_text(obs, call.options)) = True


\* C22: a text assertion and the selector assertion of the same polarity,
\* called with the same options and wait and given the same sequence of
\* observed counts, go through the loop in step: at every moment both are
\* retrying or both are over, after the same number of evaluations, and they
\* end alike, with True, with ExpectationNotMet on the same count, or with
\* the same error.
C22_TextRuleIsSelectorRule ==
    call.op \in {"assert_text", "assert_no_text"} =>
        /\ twin.op = IF call.op = "assert_text" THEN "assert_selector"
                     ELSE "assert_no_selector"
        /\ twin.options = call.options
        /\ twin.pc = pc
        /\ twin.evals = evals
        /\ twin.outcome.kind = outcome.kind
        /\ twin.outcome.count = outcome.count
        /\ (evals >= 1 /\ ~Raises(obs)) =>
              ((Latest = True) <=> (Body(twin.op, obs, twin.options) = True))

\* assert_text with minimum=MaxCount saw too few occurrences, then enough:
\* it and assert_selector on the same counts both returned True at the
\* second evaluation.
C22_Witness ==
    /\ call.op = "assert_text"
    /\ call.options = [NoOptions EXCEPT !.minimum = Some(MaxCount)]
    /\ pc = "done" /\ twin.pc = "done"
    /\ evals = 2 /\ twin.evals = 2
    /\ last_error = ExpectationNotMet("failure_message", MaxCount - 1)
    /\ obs.count = MaxCount
    /\ outcome = True /\ twin.outcome = True


\* C23: on one evaluation, for the same node and the same result set,
\* exactly one of assert_matches_selector and assert_not_match_selector
\* passes and the other raises ExpectationNotMet; both resolve the query
\* against the parent when the node has one and against the query scope
\* otherwise; assert_not_match_selector raises
\* ExpectationNotMet("Item matched the provided selector") exactly when the
\* node itself is in the result set.
C23_MatchComplement ==
    (call.op \in MatchOps /\ evals >= 1) =>
        /\ scope = IF call.hasParent THEN "parent" ELSE "query_scope"
        /\ ~Raises(obs) =>
              LET mine == Body(call.op, obs, call.options)
                  other == Body(Opposite(call.op), obs, call.options) IN
              /\ Latest = mine
              /\ (mine = True) # (other = True)
              /\ mine # True => mine.kind = "ExpectationNotMet"
              /\ other # True => other.kind = "ExpectationNotMet"
              /\ call.op = "assert_not_match_selector" =>
                    /\ ("self" \in obs.result) <=>
                          Latest = ExpectationNotMet(
                                      "Item matched the provided selector", -1)
                    /\ ("self" \notin obs.result) <=> Latest = True

\* A node with a parent: the result set, resolved against the parent, holds
\* only its twin; assert_not_match_selector has returned True at once, where
\* assert_matches_selector raises.
C23_Witness ==
    /\ call.op = "assert_not_match_selector" /\ call.hasParent
    /\ pc = "done" /\ evals = 1
    /\ obs.err = "none" /\ obs.result = {"twin"}
    /\ scope = "parent"
    /\ outcome = True
    /\ assert_matches_selector(obs).kind = "ExpectationNotMet"


\* C24: the budget of assert_all_of_selectors and assert_none_of_selectors
\* is the caller's wait when given and the process-wide default otherwise;
\* with an explicit wait of zero exactly one pass is made, whatever the
\* default: each locator is evaluated at most once, nothing is retried, and
\* an ExpectationNotMet raised is that of the first locator to fail.
C24_GroupWaitOption ==
    call.op \in GroupOps =>
        /\ deadline = IF call.wait # None THEN call.wait[1]
                      ELSE cfg.default_max_wait_time
        /\ call.wait = Some(0) =>
              /\ pc # "sleep"
              /\ evals = Len(pass_obs)
              /\ evals <= Len(Locators)
              /\ \A k \in 1..Len(pass_obs) : pass_obs[k].locator = Locators[k]
              /\ pc # "done" => last_error = NoResult
              /\ (pc = "done" /\ outcome.kind = "ExpectationNotMet") =>
                    /\ outcome = SubCall(call.op, obs, call.options)
                    /\ last_error = outcome
                    /\ \A k \in 1..(evals - 1) :
                          pass_obs[k].found = (call.op = "assert_all_of_selectors")
                    /\ pass_obs[evals].found = (call.op = "assert_none_of_selectors")

\* The default budget is MaxWait, the call asks for a wait of zero: the
\* first of two locators was found, the second was not, and the call raised
\* after these two evaluations.
C24_Witness ==
    /\ call.op = "assert_all_of_selectors"
    /\ call.wait = Some(0)
    /\ cfg.default_max_wait_time = MaxWait
    /\ Len(Locators) = 2
    /\ pc = "done" /\ outcome.kind = "ExpectationNotMet"
    /\ evals = 2
    /\ pass_obs[1].found /\ ~pass_obs[2].found


\* C25: assert_style counts nothing: one evaluation passes exactly when the
\* style query reports that the styles resolve for the node; an evaluation
\* that passes ends the call with True; one that fails is retried while the
\* query's wait budget lasts, and at the deadline or after it the call
\* raises ExpectationNotMet with the style query's own failure message.
C25_StyleDelegates ==
    call.op = "assert_style" =>
        /\ ValidOptions(call.options) => deadline = EffectiveWait
        /\ (evals >= 1 /\ ~Raises(obs)) =>
              /\ (Latest = True) <=> obs.resolves
              /\ obs.resolves => (pc = "done" /\ outcome = True /\ ret = True)
              /\ ~obs.resolves =>
                    /\ Latest = ExpectationNotMet("style failure_message", -1)
                    /\ now < deadline => pc \in {"sleep", "sync"}
                    /\ pc = "done" => (now >= deadline /\ outcome = Latest
                                       /\ ret = False)
        /\ pc = "sleep" => now < deadline

\* One attempt per instant up to the deadline: the first failed with the
\* style query's message and was retried, the last failed with it at the
\* deadline, and the call raised it.
C25_Witness ==
    /\ call.op = "assert_style"
    /\ EffectiveWait = MaxWait
    /\ pc = "done"
    /\ evals = MaxWait + 1
    /\ obs.err = "none" /\ ~obs.resolves
    /\ first_error = ExpectationNotMet("style failure_message", -1)
    /\ outcome = ExpectationNotMet("style failure_message", -1)
    /\ now = deadline


\* C26: no assertion call writes the process-wide configuration or leaves
\* anything behind: while a call runs and when it is over, having returned
\* or raised, the configuration is the one the call was made under; between
\* calls nothing of an earlier call is kept, so that a call starts from the
\* same state whatever calls came before it and its outcome depends on its
\* arguments, the configuration and the evaluator's responses alone.
C26_NoStateAcrossCalls ==
    /\ call.op # "none" => cfg = call.config
    /\ pc = "idle" =>
          /\ call = NoCall /\ now = 0 /\ deadline = 0 /\ idx = 1
          /\ evals = 0 /\ hits = 0 /\ obs = NoResponse
          /\ first_error = NoResult /\ last_error = NoResult
          /\ outcome = NoResult /\ ret = NoResult
          /\ seen = Unpolled /\ pass_obs = <<>> /\ scope = "none"
          /\ twin = NoTwin
    /\ (call.op # "none" /\ evals = 0) =>
          /\ obs = NoResponse /\ hits = 0 /\ first_error = NoResult
          /\ seen = Unpolled /\ pass_obs = <<>> /\ scope = "none"
          /\ last_error \in {NoResult, ConfigurationError}
          /\ outcome \in {NoResult, ConfigurationError, True}

\* A group assertion that read both defaults, the selector kind and the wait
\* budget, has raised; the configuration it was made under, set by the
\* caller before the call, is unchanged.
C26_Witness ==
    /\ call.op = "assert_none_of_selectors"
    /\ call.first = "#z" /\ call.wait = None
    /\ cfg = [default_max_wait_time |-> 0, default_selector |-> "xpath"]
    /\ cfg = call.config
    /\ pc = "done" /\ outcome.kind = "ExpectationNotMet"
    /\ pass_obs # <<>>
    /\ pass_obs[1].selector = "xpath"
    /\ now >= deadline

====
